---- MODULE Spec2Model ----
(***************************************************************************)
(* Model of the two batch converters of voyagerpy:                         *)
(*   generar_kml.py      read lines, stride slice, distance walk, write    *)
(*                       a KML LineString piece by piece;                  *)
(*   voyagers_to_kml.py  main: check --inputs/--names, load_vectors per    *)
(*                       input, build_kml, write_text once;                *)
(* and of the pure projection xyz_to_lonlatalt applied to drawn inputs.    *)
(*                                                                         *)
(* Numbers are fixed point.  Coordinates of generar_kml.py are integers    *)
(* (km); angles of voyagers_to_kml.py are millidegrees, lengths are        *)
(* thousandths of an AU, altitudes are millimetres.                        *)
(***************************************************************************)
EXTENDS Integers, Sequences, FiniteSets, TLC

VARIABLES
    prog,             \* which script runs: "generar_kml", "voyagers_to_kml", "xyz_to_lonlatalt"
    pc,               \* position of the running script
    file_lines,       \* generar_kml: f.readlines() of input_file, each line split in fields
    line_skip,        \* generar_kml: the stride
    min_distance,     \* generar_kml: the distance threshold
    lines,            \* generar_kml: the strided lines
    pos,              \* generar_kml: index of the next element of the running for loop
    filtered_points,  \* generar_kml: points kept so far
    last_point,       \* generar_kml: last kept point, None before the first
    out_file,         \* the output file: [opened, data]
    printed,          \* the success confirmation was printed
    error,            \* the exception that ended the run, "" while there is none
    inputs,           \* voyagers_to_kml: args.inputs, each the rows of the CSV file at that path
    names,            \* voyagers_to_kml: args.names
    series,           \* voyagers_to_kml: series loaded so far
    loads,            \* voyagers_to_kml: number of load_vectors calls made
    kml,              \* voyagers_to_kml: the document returned by build_kml
    exit_status,      \* voyagers_to_kml: process exit status, -1 while running
    xyz,              \* xyz_to_lonlatalt: the input vector
    lonlatalt         \* xyz_to_lonlatalt: the result, <<>> before the call

vars == <<prog, pc, file_lines, line_skip, min_distance, lines, pos,
          filtered_points, last_point, out_file, printed, error, inputs, names,
          series, loads, kml, exit_status, xyz, lonlatalt>>

varsA == <<file_lines, line_skip, min_distance, lines, pos, filtered_points, last_point>>
varsB == <<inputs, names, series, loads, kml, exit_status>>
varsP == <<xyz, lonlatalt>>

(***************************************************************************)
(* Bounds of the model.                                                    *)
(***************************************************************************)
MaxLines == 3
MaxStride == 2
MaxInputs == 2
MaxNames == 2
MaxRows == 2
MaxCoord == 5

(***************************************************************************)
(* Generic helpers.                                                        *)
(***************************************************************************)
Abs(n) == IF n < 0 THEN -n ELSE n

Min2(a, b) == IF a <= b THEN a ELSE b

SeqsUpTo(S, n) == UNION {[1..k -> S] : k \in 0..n}

None == <<>>

(***************************************************************************)
(* generar_kml.py                                                          *)
(***************************************************************************)
factor_escala == 174000000

\* sun_lat, sun_lon in microdegrees
sun_lat == -25280945

sun_lon == -57609083

\* A field of a split line: numeric text with its value, or other text.
Num(v) == [numeric |-> TRUE, value |-> v]

Txt == [numeric |-> FALSE, value |-> 0]

\* The points the input lines are drawn from.  (0,0)-(60,80) is a distance of
\* exactly 100; (-60,0)-(60,0) is 120 while both are 60 from (0,0).
Points == {<<0, 0>>, <<60, 80>>, <<101, 0>>, <<-60, 0>>, <<60, 0>>}

GoodLine(p) == <<Txt, Txt, Num(p[1]), Num(p[2])>>

\* line.split(",") of a line with too few fields, and of one whose field 2 is
\* not a number
ShortLine == <<Txt, Txt, Num(0)>>

TextLine == <<Txt, Txt, Txt, Num(0)>>

Lines == {GoodLine(p) : p \in Points} \cup {ShortLine, TextLine}

MinDistances == {0, 100}

\* variant: a missing or non-numeric field read as 0.0 instead of raising
FloatOfLenient(parts, k) ==
    IF k + 1 > Len(parts) THEN [err |-> "", val |-> 0]
    ELSE [err |-> "", val |-> parts[k + 1].value]

\* float(parts[k]), k 0-based: IndexError when the field is missing, ValueError
\* when it is not numeric
FloatOf(parts, k) ==
    IF k + 1 > Len(parts) THEN [err |-> "IndexError", val |-> 0]
    ELSE IF ~parts[k + 1].numeric THEN [err |-> "ValueError", val |-> 0]
    ELSE [err |-> "", val |-> parts[k + 1].value]

\* lines 25-28: x = float(parts[2]); y = float(parts[3])
ParseLine(line) ==
    LET x == FloatOf(line, 2)
        y == FloatOf(line, 3)
    IN  [err |-> IF x.err # "" THEN x.err ELSE y.err, point |-> <<x.val, y.val>>]

\* distance(p1, p2) squared; math.sqrt is monotone and exact enough on these
\* integers that sqrt(d2) > m  <=>  d2 > m*m
Distance2(p1, p2) == (p1[1] - p2[1]) * (p1[1] - p2[1]) + (p1[2] - p2[2]) * (p1[2] - p2[2])

\* variant: >= in place of >
KeepsGe(p, last, m) == last = None \/ Distance2(p, last) >= m * m

\* line 30: last_point is None or distance((x, y), last_point) > min_distance
Keeps(p, last, m) == last = None \/ Distance2(p, last) > m * m

\* variant: last_point set for every candidate, outside the if
NewLastAlways(p, last, m) == p

\* line 32, under the test of line 30: the point the next candidate is measured against
NewLast(p, last, m) == IF Keeps(p, last, m) THEN p ELSE last

\* variant: [::-line_skip]
StrideSliceReversed(s, stride) ==
    LET n == (Len(s) + stride - 1) \div stride
    IN  [k \in 1..n |-> s[(n - k) * stride + 1]]

\* variant: [line_skip-1::line_skip]
StrideSliceOffset(s, stride) ==
    LET n == Len(s) \div stride
    IN  [k \in 1..n |-> s[k * stride]]

\* line 19: readlines()[::line_skip]
StrideSlice(s, stride) ==
    LET n == (Len(s) + stride - 1) \div stride
    IN  [k \in 1..n |-> s[(k - 1) * stride + 1]]

\* lines 21-32 as a function of the parsed points: the points the walk keeps
\* when it starts with last_point = last
RECURSIVE WalkFrom(_, _, _)
WalkFrom(ps, last, m) ==
    IF ps = <<>> THEN <<>>
    ELSE (IF Keeps(Head(ps), last, m) THEN <<Head(ps)>> ELSE <<>>)
         \o WalkFrom(Tail(ps), NewLast(Head(ps), last, m), m)

DistanceWalk(ps, m) == WalkFrom(ps, None, m)

\* lines 55-57: one coordinate line of the LineString
CoordLine(p) ==
    [kind |-> "coord",
     lon |-> sun_lon + (p[1] * 1000000) \div factor_escala,
     lat |-> sun_lat + (p[2] * 1000000) \div factor_escala]

HeaderA == [kind |-> "header", lon |-> 0, lat |-> 0]

FooterA == [kind |-> "footer", lon |-> 0, lat |-> 0]

\* The whole document of generar_kml.py for a list of points
DocumentA(points) ==
    <<HeaderA>> \o [k \in 1..Len(points) |-> CoordLine(points[k])] \o <<FooterA>>

Untouched == [opened |-> FALSE, data |-> <<>>]

InitA ==
    /\ prog = "generar_kml"
    /\ pc = "read"
    /\ file_lines \in SeqsUpTo(Lines, MaxLines)
    /\ line_skip \in 1..MaxStride
    /\ min_distance \in MinDistances
    /\ lines = <<>>
    /\ pos = 1
    /\ filtered_points = <<>>
    /\ last_point = None
    /\ out_file = Untouched
    /\ printed = FALSE
    /\ error = ""
    /\ inputs = <<>> /\ names = <<>> /\ series = <<>> /\ loads = 0
    /\ kml = <<>> /\ exit_status = -1
    /\ xyz = <<0, 0, 0>> /\ lonlatalt = <<>>

\* the output opened around the whole script instead of after the walk
ReadLinesOpening ==
    /\ prog = "generar_kml" /\ pc = "read"
    /\ lines' = StrideSlice(file_lines, line_skip)
    /\ pos' = 1
    /\ filtered_points' = <<>>
    /\ last_point' = None
    /\ pc' = "walk"
    /\ out_file' = [opened |-> TRUE, data |-> <<>>]
    /\ UNCHANGED <<prog, file_lines, line_skip, min_distance, printed, error>>
    /\ UNCHANGED <<varsB, varsP>>

\* lines 18-22
ReadLines ==
    /\ prog = "generar_kml" /\ pc = "read"
    /\ lines' = StrideSlice(file_lines, line_skip)
    /\ pos' = 1
    /\ filtered_points' = <<>>
    /\ last_point' = None
    /\ pc' = "walk"
    /\ UNCHANGED <<prog, file_lines, line_skip, min_distance, out_file, printed, error>>
    /\ UNCHANGED <<varsB, varsP>>

\* lines 24-32, one iteration of the loop; float() raising ends the run
WalkLine ==
    /\ prog = "generar_kml" /\ pc = "walk" /\ pos <= Len(lines)
    /\ LET r == ParseLine(lines[pos])
       IN  IF r.err # ""
           THEN /\ pc' = "failed"
                /\ error' = r.err
                /\ UNCHANGED <<pos, filtered_points, last_point>>
           ELSE /\ pc' = "walk"
                /\ UNCHANGED error
                /\ pos' = pos + 1
                /\ filtered_points' =
                       IF Keeps(r.point, last_point, min_distance)
                       THEN Append(filtered_points, r.point)
                       ELSE filtered_points
                /\ last_point' = NewLast(r.point, last_point, min_distance)
    /\ UNCHANGED <<prog, file_lines, line_skip, min_distance, lines, out_file, printed>>
    /\ UNCHANGED <<varsB, varsP>>

\* lines 35-52: open(output_file, "w") truncates the file, then the header is
\* written; the OS may refuse either
OpenOutput ==
    /\ prog = "generar_kml" /\ pc = "walk" /\ pos > Len(lines)
    /\ \/ /\ out_file' = [opened |-> TRUE, data |-> <<HeaderA>>]
          /\ pc' = "coords"
          /\ pos' = 1
          /\ UNCHANGED error
       \/ /\ out_file' = [opened |-> TRUE, data |-> <<>>]
          /\ pc' = "failed"
          /\ error' = "OSError"
          /\ UNCHANGED pos
       \/ /\ pc' = "failed"
          /\ error' = "OSError"
          /\ UNCHANGED <<out_file, pos>>
    /\ UNCHANGED <<prog, file_lines, line_skip, min_distance, lines,
                   filtered_points, last_point, printed>>
    /\ UNCHANGED <<varsB, varsP>>

\* lines 54-57, one iteration: one f.write per point, which may fail
WriteCoord ==
    /\ prog = "generar_kml" /\ pc = "coords" /\ pos <= Len(filtered_points)
    /\ \/ /\ out_file' = [out_file EXCEPT !.data = Append(@, CoordLine(filtered_points[pos]))]
          /\ pos' = pos + 1
          /\ pc' = "coords"
          /\ UNCHANGED error
       \/ /\ pc' = "failed"
          /\ error' = "OSError"
          /\ UNCHANGED <<out_file, pos>>
    /\ UNCHANGED <<prog, file_lines, line_skip, min_distance, lines,
                   filtered_points, last_point, printed>>
    /\ UNCHANGED <<varsB, varsP>>

\* lines 59-65: the footer, then the confirmation
WriteFooter ==
    /\ prog = "generar_kml" /\ pc = "coords" /\ pos > Len(filtered_points)
    /\ \/ /\ out_file' = [out_file EXCEPT !.data = Append(@, FooterA)]
          /\ printed' = TRUE
          /\ pc' = "done"
          /\ UNCHANGED error
       \/ /\ pc' = "failed"
          /\ error' = "OSError"
          /\ UNCHANGED <<out_file, printed>>
    /\ UNCHANGED <<prog, file_lines, line_skip, min_distance, lines, pos,
                   filtered_points, last_point>>
    /\ UNCHANGED <<varsB, varsP>>

(***************************************************************************)
(* voyagers_to_kml.py                                                      *)
(***************************************************************************)
SCALE_DENOMINATOR == 174000000

\* AU_METERS in kilometres (149_597_870_000.0 m)
AU_KM == 149597870

\* SCALE_M_PER_AU in millimetres per AU: AU_METERS / SCALE_DENOMINATOR * 1000
SCALE_MM_PER_AU == AU_KM \div (SCALE_DENOMINATOR \div 1000000)

RECURSIVE ISqrtIn(_, _, _)
ISqrtIn(n, lo, hi) ==
    IF lo >= hi THEN lo
    ELSE LET mid == (lo + hi + 1) \div 2
         IN  IF mid * mid <= n THEN ISqrtIn(n, mid, hi) ELSE ISqrtIn(n, lo, mid - 1)

\* floor of the square root
ISqrt(n) == ISqrtIn(n, 0, 46340)

\* math.hypot(x, y), in thousandths
Hypot(x, y) == ISqrt((x * x + y * y) * 1000000)

\* atan(a / b) in millidegrees for 0 <= a <= b, b > 0: 45 t + 15.64 t (1 - t),
\* exact at t = 0 and t = 1, within 0.25 degrees between
AtanFrac(a, b) ==
    LET t == (a * 1000) \div b
    IN  45 * t + (1564 * t * (1000 - t)) \div 100000

\* math.degrees(math.atan2(y, x)) in millidegrees, with atan2(0, 0) = 0
Atan2Deg(y, x) ==
    IF y = 0 THEN (IF x >= 0 THEN 0 ELSE 180000)
    ELSE IF x = 0 THEN (IF y > 0 THEN 90000 ELSE -90000)
    ELSE LET ay == Abs(y)
             ax == Abs(x)
             base == IF ay <= ax THEN AtanFrac(ay, ax) ELSE 90000 - AtanFrac(ax, ay)
             mag == IF x > 0 THEN base ELSE 180000 - base
         IN  IF y > 0 THEN mag ELSE -mag

\* variant: z >= 0 in place of z > 0
PoleLatGe(z) == IF z >= 0 THEN 90000 ELSE -90000

\* line 92, the branch for r_xy = 0: 90.0 if z > 0 else -90.0
PoleLat(z) == IF z > 0 THEN 90000 ELSE -90000

\* line 92: lat from z and r_xy (r_xy in thousandths)
Latitude(z, r_xy) == IF r_xy # 0 THEN Atan2Deg(z * 1000, r_xy) ELSE PoleLat(z)

\* lines 88-94
xyz_to_lonlatalt(x, y, z) ==
    LET r_xy == Hypot(x, y)
        r == ISqrt((x * x + y * y + z * z) * 1000000)
        lon == Atan2Deg(y, x)
        lat == Latitude(z, r_xy)
        alt_m == r * (SCALE_MM_PER_AU \div 1000) + (r * (SCALE_MM_PER_AU % 1000)) \div 1000
    IN  <<lon, lat, alt_m>>

\* Fields and rows of a CSV file: 0=JD, 1=date, 2=X, 3=Y, 4=Z
Date(t) == [numeric |-> FALSE, value |-> t]

CsvRow(t, x, y, z) == <<Num(0), Date(t), Num(x), Num(y), Num(z)>>

\* a row whose X is not a number, and a comment line
BadRow == <<Num(0), Date(0), Txt, Num(0), Num(0)>>

CommentRow == <<>>

Rows == {CsvRow(1, 0, 0, 3), CsvRow(2, 3, 0 - 2, 0), BadRow, CommentRow}

\* pd.read_csv(csv_path, header=None, comment="#"): comment lines are skipped
RECURSIVE DropComments(_)
DropComments(rows) ==
    IF rows = <<>> THEN <<>>
    ELSE IF Head(rows) = CommentRow THEN DropComments(Tail(rows))
    ELSE <<Head(rows)>> \o DropComments(Tail(rows))

\* lines 77-85: the four columns as lists; read_csv raises on a file with no
\* rows, astype(float) on a field that is not a number
load_vectors(rows) ==
    LET df == DropComments(rows)
        n == Len(df)
    IN  [err |-> IF n = 0 THEN "EmptyDataError"
                 ELSE IF \E k \in 1..n : \E c \in 3..5 : ~df[k][c].numeric THEN "ValueError"
                 ELSE "",
         T |-> [k \in 1..n |-> df[k][2].value],
         X |-> [k \in 1..n |-> df[k][3].value],
         Y |-> [k \in 1..n |-> df[k][4].value],
         Z |-> [k \in 1..n |-> df[k][5].value]]

WhenLine(t) == [kind |-> "when", t |-> t, coord |-> <<>>]

CoordLineB(x, y, z) == [kind |-> "gx:coord", t |-> 0, coord |-> xyz_to_lonlatalt(x, y, z)]

\* variant: the last gx:coord line left out
make_when_coords_short(times, X, Y, Z) ==
    LET n == Min2(Min2(Len(times), Len(X)), Min2(Len(Y), Len(Z)))
    IN  [j \in 1..(2 * n - 1) |->
            IF j % 2 = 1 THEN WhenLine(times[(j + 1) \div 2])
            ELSE CoordLineB(X[j \div 2], Y[j \div 2], Z[j \div 2])]

\* lines 96-104: zip stops at the shortest list; two lines per sample
make_when_coords(times, X, Y, Z) ==
    LET n == Min2(Min2(Len(times), Len(X)), Min2(Len(Y), Len(Z)))
    IN  [j \in 1..(2 * n) |->
            IF j % 2 = 1 THEN WhenLine(times[(j + 1) \div 2])
            ELSE CoordLineB(X[j \div 2], Y[j \div 2], Z[j \div 2])]

KML_HEADER == [kind |-> "header", style_id |-> 0, name |-> "", when_coords |-> <<>>]

KML_FOOTER == [kind |-> "footer", style_id |-> 0, name |-> "", when_coords |-> <<>>]

\* line 111: STYLE_TEMPLATE with style_id s<idx+1>; idx is 0-based
StyleBlock(idx) == [kind |-> "Style", style_id |-> idx + 1, name |-> "", when_coords |-> <<>>]

\* variant: s<idx> in place of s<idx+1>
PlacemarkStyleIdx(idx) == idx

\* line 115: the style id a placemark refers to, s<idx+1>
PlacemarkStyle(idx) == idx + 1

\* lines 114-115: PLACEMARK_TEMPLATE for the series at 0-based index idx
PlacemarkBlock(idx, s) ==
    [kind |-> "Placemark", style_id |-> PlacemarkStyle(idx), name |-> s.name,
     when_coords |-> make_when_coords(s.T, s.X, s.Y, s.Z)]

\* lines 106-117: the parts of the document, in the order they are joined
build_kml(ss) ==
    <<KML_HEADER>>
    \o [k \in 1..Len(ss) |-> StyleBlock(k - 1)]
    \o [k \in 1..Len(ss) |-> PlacemarkBlock(k - 1, ss[k])]
    \o <<KML_FOOTER>>

\* paths and names of the usage message
PathList == <<"voyager1.csv", "voyager2.csv", "jupiter.csv", "saturn.csv",
              "uranus.csv", "neptune.csv", "ceres.csv", "pluto.csv">>

NameList == <<"Voyager 1", "Voyager 2", "Jupiter", "Saturno",
              "Urano", "Neptuno", "Ceres", "Pluton">>

\* variant: > in place of !=
ArgsMismatchMoreInputs(ins, nms) == Len(ins) > Len(nms)

\* line 126
ArgsMismatch(ins, nms) == Len(ins) # Len(nms)

InitB ==
    /\ prog = "voyagers_to_kml"
    /\ pc = "check"
    /\ \E n \in 1..MaxInputs : inputs = SubSeq(PathList, 1, n)
    /\ \E m \in 1..MaxNames : names = SubSeq(NameList, 1, m)
    /\ series = <<>>
    /\ loads = 0
    /\ kml = <<>>
    /\ exit_status = -1
    /\ out_file = Untouched
    /\ printed = FALSE
    /\ error = ""
    /\ file_lines = <<>> /\ line_skip = 1 /\ min_distance = 0 /\ lines = <<>>
    /\ pos = 1 /\ filtered_points = <<>> /\ last_point = None
    /\ xyz = <<0, 0, 0>> /\ lonlatalt = <<>>

\* lines 126-127: raise SystemExit(message), exit status 1
CheckArgs ==
    /\ prog = "voyagers_to_kml" /\ pc = "check"
    /\ IF ArgsMismatch(inputs, names)
       THEN pc' = "failed" /\ exit_status' = 1 /\ error' = "SystemExit"
       ELSE pc' = "load" /\ UNCHANGED <<exit_status, error>>
    /\ UNCHANGED <<prog, out_file, printed, inputs, names, series, loads, kml>>
    /\ UNCHANGED <<varsA, varsP>>

\* lines 130-132, one iteration: the file at the next path holds any rows
LoadVectors ==
    /\ prog = "voyagers_to_kml" /\ pc = "load" /\ Len(series) < Min2(Len(inputs), Len(names))
    /\ \E rows \in SeqsUpTo(Rows, MaxRows) :
          LET r == load_vectors(rows)
              name == names[Len(series) + 1]
          IN  IF r.err = ""
              THEN /\ series' = Append(series, [name |-> name, T |-> r.T, X |-> r.X,
                                                Y |-> r.Y, Z |-> r.Z])
                   /\ UNCHANGED <<pc, exit_status, error>>
              ELSE /\ pc' = "failed" /\ exit_status' = 1 /\ error' = r.err
                   /\ UNCHANGED series
    /\ loads' = loads + 1
    /\ UNCHANGED <<prog, out_file, printed, inputs, names, kml>>
    /\ UNCHANGED <<varsA, varsP>>

\* line 134
BuildKml ==
    /\ prog = "voyagers_to_kml" /\ pc = "load" /\ Len(series) >= Min2(Len(inputs), Len(names))
    /\ kml' = build_kml(series)
    /\ pc' = "write"
    /\ UNCHANGED <<prog, out_file, printed, error, inputs, names, series, loads, exit_status>>
    /\ UNCHANGED <<varsA, varsP>>

\* lines 135-138: write_text opens the file for writing (truncating it) and
\* writes the string; the OS may refuse either
WriteText ==
    /\ prog = "voyagers_to_kml" /\ pc = "write"
    /\ \/ /\ out_file' = [opened |-> TRUE, data |-> kml]
          /\ printed' = TRUE
          /\ pc' = "done"
          /\ exit_status' = 0
          /\ UNCHANGED error
       \/ /\ out_file' = [opened |-> TRUE, data |-> <<>>]
          /\ pc' = "failed" /\ exit_status' = 1 /\ error' = "OSError"
          /\ UNCHANGED printed
       \/ /\ pc' = "failed" /\ exit_status' = 1 /\ error' = "OSError"
          /\ UNCHANGED <<out_file, printed>>
    /\ UNCHANGED <<prog, inputs, names, series, loads, kml>>
    /\ UNCHANGED <<varsA, varsP>>

NextB == CheckArgs \/ LoadVectors \/ BuildKml \/ WriteText

(***************************************************************************)
(* xyz_to_lonlatalt applied to a drawn vector                              *)
(***************************************************************************)
InitP ==
    /\ prog = "xyz_to_lonlatalt"
    /\ pc = "call"
    /\ xyz \in (-MaxCoord..MaxCoord) \X (-MaxCoord..MaxCoord) \X (-MaxCoord..MaxCoord)
    /\ lonlatalt = <<>>
    /\ out_file = Untouched
    /\ printed = FALSE
    /\ error = ""
    /\ file_lines = <<>> /\ line_skip = 1 /\ min_distance = 0 /\ lines = <<>>
    /\ pos = 1 /\ filtered_points = <<>> /\ last_point = None
    /\ inputs = <<>> /\ names = <<>> /\ series = <<>> /\ loads = 0
    /\ kml = <<>> /\ exit_status = -1

Project ==
    /\ prog = "xyz_to_lonlatalt" /\ pc = "call"
    /\ lonlatalt' = xyz_to_lonlatalt(xyz[1], xyz[2], xyz[3])
    /\ pc' = "done"
    /\ UNCHANGED <<prog, xyz, out_file, printed, error>>
    /\ UNCHANGED <<varsA, varsB>>

Init == InitA \/ InitB \/ InitP

Next == ReadLines \/ WalkLine \/ OpenOutput \/ WriteCoord \/ WriteFooter
        \/ CheckArgs \/ LoadVectors \/ BuildKml \/ WriteText
        \/ Project

Spec == Init /\ [][Next]_vars

(***************************************************************************)
(* Properties                                                              *)
(***************************************************************************)
InA == prog = "generar_kml"

InB == prog = "voyagers_to_kml"

\* a line of the input whose field 2 or 3 is missing or not a number
Malformed(line) == Len(line) < 4 \/ ~line[3].numeric \/ ~line[4].numeric

PointOf(line) == <<line[3].value, line[4].value>>

\* the 1-based positions of the input lines the stride keeps: 0, stride, 2*stride, ... 0-based
Strided == {k \in 1..Len(file_lines) : (k - 1) % line_skip = 0}

StridedCount == (Len(file_lines) + line_skip - 1) \div line_skip

\* the walk has gone over every strided line
WalkOver == InA /\ (pc \in {"coords", "done"} \/ (pc = "walk" /\ pos > Len(lines)))

\* ps is obtained from the lines ls by dropping lines: each point is the point of
\* a well-formed line, in the same order, no line used twice
RECURSIVE IsSubsequence(_, _)
IsSubsequence(ps, ls) ==
    IF ps = <<>> THEN TRUE
    ELSE IF ls = <<>> THEN FALSE
    ELSE IF ~Malformed(Head(ls)) /\ PointOf(Head(ls)) = Head(ps)
         THEN IsSubsequence(Tail(ps), Tail(ls))
         ELSE IsSubsequence(ps, Tail(ls))

\* C1: at every point of a run of generar_kml.py, filtered_points is a
\* subsequence of the input lines' points: same order, nothing duplicated,
\* nothing invented.
C1_Subsequence == InA => IsSubsequence(filtered_points, file_lines)

C1_Witness ==
    /\ InA /\ pc = "done"
    /\ Len(filtered_points) >= 2
    /\ Len(filtered_points) < Len(file_lines)

\* C2: consecutive kept points are strictly more than min_distance apart, and
\* last_point is the last kept point (never a dropped candidate).
C2_StrictlyApart ==
    InA =>
      /\ \A k \in 1..(Len(filtered_points) - 1) :
            Distance2(filtered_points[k], filtered_points[k + 1]) > min_distance * min_distance
      /\ last_point = IF filtered_points = <<>> THEN None
                      ELSE filtered_points[Len(filtered_points)]

\* a candidate exactly min_distance from the kept point was dropped, and so was a
\* later one that is far from that dropped candidate but near the kept point
C2_Witness ==
    /\ InA /\ pc = "done" /\ min_distance > 0
    /\ Len(lines) = 3 /\ Len(filtered_points) = 1
    /\ Distance2(PointOf(lines[2]), filtered_points[1]) = min_distance * min_distance
    /\ Distance2(PointOf(lines[3]), PointOf(lines[2])) > min_distance * min_distance

\* C3 as stated: once the walk is over the result has at least one element, at
\* most as many as the strided input, and starts with the first input sample.
C3_Original ==
    WalkOver =>
      /\ Len(filtered_points) >= 1
      /\ Len(filtered_points) <= StridedCount
      /\ Len(file_lines) >= 1 /\ filtered_points[1] = PointOf(file_lines[1])

\* C3 amended: the same for a non-empty input; an empty input gives an empty result.
C3_NonEmptyInput ==
    WalkOver =>
      /\ Len(filtered_points) <= StridedCount
      /\ file_lines = <<>> => filtered_points = <<>>
      /\ file_lines # <<>> =>
            /\ Len(filtered_points) >= 1
            /\ filtered_points[1] = PointOf(file_lines[1])

C3_Witness ==
    /\ WalkOver /\ pc = "done"
    /\ Len(file_lines) = 3 /\ line_skip = 2
    /\ Len(filtered_points) = StridedCount

\* C4: when the numbers of --inputs and --names differ, main only fails: no
\* load_vectors call, nothing written, no confirmation, exit status not 0.
C4_MismatchFailsFirst ==
    (InB /\ Len(inputs) # Len(names)) =>
      /\ pc \in {"check", "failed"}
      /\ loads = 0 /\ series = <<>>
      /\ out_file = Untouched /\ ~printed
      /\ pc = "failed" => (exit_status # 0 /\ exit_status # -1 /\ error = "SystemExit")

C4_Witness ==
    /\ InB /\ pc = "failed" /\ Len(inputs) > Len(names) /\ exit_status = 1

\* the complete document of the running script
Complete ==
    /\ out_file.opened
    /\ out_file.data = IF InA THEN DocumentA(filtered_points) ELSE build_kml(series)

IsPrefix(s, t) == Len(s) <= Len(t) /\ \A k \in 1..Len(s) : s[k] = t[k]

\* C5 as stated: a run that failed leaves the output file untouched or complete.
C5_Original == pc = "failed" => (out_file = Untouched \/ Complete)

\* C5 amended: voyagers_to_kml.py hands the whole document to one write_text
\* call, generar_kml.py opens the file and writes header, points and footer one
\* by one.  Every failure other than of the output file's own open and writes
\* leaves the file untouched, a run that prints its confirmation has written
\* the complete document, and what a failed write leaves is a prefix of the
\* document (in voyagers_to_kml.py the empty file only).
C5_WriteOnceOrPiecewise ==
    /\ (error \notin {"", "OSError"}) => out_file = Untouched
    /\ printed => Complete
    /\ InB => /\ out_file.data \in {<<>>, build_kml(series)}
              /\ out_file.opened => pc \in {"done", "failed"}
              /\ pc = "done" => Complete
    /\ InA => /\ IsPrefix(out_file.data, DocumentA(filtered_points))
              /\ out_file.opened => (WalkOver \/ error = "OSError")
              /\ pc = "done" => Complete

\* generar_kml.py failed on a write after the header and a point were written
C5_Witness ==
    /\ InA /\ pc = "failed" /\ error = "OSError"
    /\ Len(out_file.data) >= 2 /\ ~Complete

\* C6 as stated: a malformed line anywhere in the input file aborts the run.
C6_Original ==
    (InA /\ \E k \in 1..Len(file_lines) : Malformed(file_lines[k])) =>
      (pc # "done" /\ ~printed /\ out_file = Untouched)

\* C6 amended: a malformed line among the strided lines (0-based indices 0,
\* line_skip, 2*line_skip, ...) aborts the run: no point of a malformed line is
\* kept, the output file is never opened, the confirmation is not printed.  Lines
\* the stride skips are never parsed.
C6_StridedMalformedAborts ==
    (InA /\ \E k \in Strided : Malformed(file_lines[k])) =>
      /\ pc \in {"read", "walk", "failed"}
      /\ pc = "failed" => error \in {"ValueError", "IndexError"}
      /\ pc = "walk" => pos <= Len(lines)
      /\ out_file = Untouched /\ ~printed
      /\ \A j \in 1..Len(filtered_points) :
            \E k \in Strided : ~Malformed(file_lines[k]) /\ PointOf(file_lines[k]) = filtered_points[j]

C6_Witness ==
    /\ InA /\ pc = "failed" /\ error = "IndexError"
    /\ Len(filtered_points) >= 1
    /\ \E k \in Strided : Malformed(file_lines[k])
    /\ out_file = Untouched /\ ~printed

\* the parts of a document of a kind
PartsOf(doc, kind) == SelectSeq(doc, LAMBDA part : part.kind = kind)

\* C7: the document of build_kml has one style block and one track per series,
\* and the i-th track has one gx:coord and one when per sample of the i-th series.
C7_Counts ==
    (InB /\ pc \in {"write", "done"}) =>
      LET tracks == PartsOf(kml, "Placemark")
      IN  /\ Len(PartsOf(kml, "Style")) = Len(series)
          /\ Len(tracks) = Len(series)
          /\ \A i \in 1..Len(tracks) :
                /\ Len(PartsOf(tracks[i].when_coords, "gx:coord")) = Len(series[i].X)
                /\ Len(PartsOf(tracks[i].when_coords, "when")) = Len(series[i].T)

C7_Witness ==
    /\ InB /\ pc = "done" /\ Len(series) = 2
    /\ Len(series[1].X) = 2 /\ Len(series[2].X) = 1
    /\ out_file.data = kml

\* C9: header, styles s1..sN, tracks 1..N, footer, in that order; track k refers
\* to style s<k>, defined before it; in a track, sample j gives record 2j-1 (its
\* when) and record 2j (its coordinate triple).
C9_EmitOrder ==
    (InB /\ pc \in {"write", "done"}) =>
      LET n == Len(series)
      IN  /\ Len(kml) = 2 * n + 2
          /\ kml[1].kind = "header"
          /\ kml[2 * n + 2].kind = "footer"
          /\ \A k \in 1..n :
                /\ kml[1 + k].kind = "Style" /\ kml[1 + k].style_id = k
                /\ kml[1 + n + k].kind = "Placemark"
                /\ kml[1 + n + k].name = series[k].name
                /\ kml[1 + n + k].style_id = k
                /\ \E q \in 1..(n + k) :
                      kml[q].kind = "Style" /\ kml[q].style_id = kml[1 + n + k].style_id
                /\ LET wc == kml[1 + n + k].when_coords
                       s == series[k]
                   IN  /\ Len(wc) = 2 * Len(s.T)
                       /\ \A j \in 1..Len(s.T) :
                             /\ wc[2 * j - 1].kind = "when" /\ wc[2 * j - 1].t = s.T[j]
                             /\ wc[2 * j].kind = "gx:coord"
                             /\ wc[2 * j].coord = xyz_to_lonlatalt(s.X[j], s.Y[j], s.Z[j])

C9_Witness ==
    /\ InB /\ pc = "done" /\ Len(series) = 2
    /\ Len(series[2].T) = 2 /\ series[2].T[1] # series[2].T[2]
    /\ kml[4].style_id = 1 /\ kml[5].style_id = 2

\* C8: for x = y = 0 the latitude is +90 when z > 0 and -90 otherwise, and the
\* longitude is 0; otherwise the latitude is strictly between the poles, has
\* the sign of z, and is 0 for z = 0.
C8_PoleRule ==
    (prog = "xyz_to_lonlatalt" /\ pc = "done") =>
      LET x == xyz[1]
          y == xyz[2]
          z == xyz[3]
          lon == lonlatalt[1]
          lat == lonlatalt[2]
      IN  /\ (x = 0 /\ y = 0) =>
                /\ lon = 0
                /\ lat = IF z > 0 THEN 90000 ELSE -90000
          /\ (x # 0 \/ y # 0) =>
                /\ -90000 < lat /\ lat < 90000
                /\ z = 0 => lat = 0
                /\ z > 0 => lat > 0
                /\ z < 0 => lat < 0
          /\ xyz = <<0, 0, 5>> => (lon = 0 /\ lat = 90000)
          /\ xyz = <<0, 0, -5>> => lat = -90000
          /\ xyz = <<0, 0, 0>> => (lon = 0 /\ lat = -90000)

C8_Witness ==
    /\ prog = "xyz_to_lonlatalt" /\ pc = "done"
    /\ xyz = <<0, 0, 0>> /\ lonlatalt[1] = 0 /\ lonlatalt[2] = -90000

\* C10: walking the kept points again, with stride 1 and the same
\* min_distance, keeps every one of them.
C10_WalkIdempotent ==
    InA => DistanceWalk(filtered_points, min_distance) = filtered_points

C10_Witness ==
    /\ InA /\ pc = "done" /\ min_distance > 0
    /\ Len(filtered_points) >= 2
    /\ Len(filtered_points) < Len(lines)
====
